---- MODULE Spec2Model ----
(***************************************************************************)
(* Finite-field elements (src/exercises/ch1.rs) and elliptic-curve points  *)
(* over them (src/exercises/ch2.rs).                                       *)
(*                                                                         *)
(* The library is a set of pure functions over immutable values.  The      *)
(* state machine is a caller: each step calls one function of the API on   *)
(* inputs drawn from bounded sets and records the call and its outcome.    *)
(*                                                                         *)
(* Outcomes.  A Rust expression either evaluates to a value or panics; a   *)
(* value of type Result<T, String> is Ok(v) or Err(msg).  An outcome is a  *)
(* record [tag, val] with tag "Ok", "Err" or "Panic"; the outcome of an    *)
(* expression whose type is not a Result (pow, scalar_mul) is carried as   *)
(* Ok(v) when it evaluates and Panic(msg) when it panics.                  *)
(*                                                                         *)
(* Integer width.  num and prime are u32.  +, - and * on u32 and           *)
(* u32::pow panic on overflow when the crate is built with overflow checks *)
(* (the dev profile) and wrap modulo 2^32 otherwise (the release profile). *)
(* The profile is the variable overflow_checks, chosen once.  TLC's        *)
(* integers are 32-bit signed, so a u32 intermediate (a product, a power)  *)
(* is held as its two 16-bit halves; num and prime themselves are held as   *)
(* integers and the model draws them below 2^23.                           *)
(***************************************************************************)
EXTENDS Integers, Sequences, FiniteSets, TLC

VARIABLES overflow_checks, op, args, ret

vars == <<overflow_checks, op, args, ret>>

(***************************************************************************)
(* Outcomes and Option                                                     *)
(***************************************************************************)
Ok(v) == [tag |-> "Ok", val |-> v]

Err(msg) == [tag |-> "Err", val |-> msg]

Panic(msg) == [tag |-> "Panic", val |-> msg]

None == <<>>

Some(v) == <<v>>

\* Evaluation order.  CHOOSE r \in {e : v \in {x}} : TRUE is e with v bound
\* to the value of x: x is evaluated once, before e, as the program does.

\* Result::unwrap applied to the outcome o of an expression.
Unwrap(o) ==
    CHOOSE r \in {IF v.tag = "Err"
                  THEN Panic("called Result::unwrap() on an Err value")
                  ELSE v : v \in {o}} : TRUE

\* F(x.unwrap(), y.unwrap()): the operands are evaluated left to right and
\* the first panic is the panic of the whole expression.
Apply2(F(_, _), x, y) ==
    CHOOSE r \in {IF u.tag # "Ok" THEN u
                  ELSE CHOOSE q \in {IF w.tag # "Ok" THEN w
                                     ELSE F(u.val, w.val) :
                                     w \in {Unwrap(y)}} : TRUE :
                  u \in {Unwrap(x)}} : TRUE

\* F(x) once the expression x has evaluated; the panic of x otherwise.
Apply1(F(_), x) ==
    CHOOSE r \in {IF v.tag # "Ok" THEN v ELSE F(v.val) : v \in {x}} : TRUE

\* Statement sequencing: second runs when first has not panicked.
AndThen(first, second) ==
    CHOOSE r \in {IF v.tag # "Ok" THEN v ELSE second : v \in {first}} : TRUE

(***************************************************************************)
(* u32 arithmetic                                                          *)
(***************************************************************************)
U32Bits == 32

\* A u32 is held as its two 16-bit halves, [lo, hi], so that no intermediate
\* of the model leaves the integers TLC computes with (below 2^31).
HalfBase == 2^(U32Bits \div 2)

ByteBase == 2^(U32Bits \div 4)

\* The u32 of value n, for n below 2^31.
ToHalves(n) == [lo |-> n % HalfBase, hi |-> n \div HalfBase]

\* The 32-bit product of two 16-bit halves a and b, from the products of a
\* with the low byte and with the high byte of b.
HalfMulFrom(low, high) ==
    [lo |-> ((high % ByteBase) * ByteBase + low) % HalfBase,
     hi |-> (high \div ByteBase)
            + (((high % ByteBase) * ByteBase + low) \div HalfBase)]

HalfMul(a, b) == HalfMulFrom(a * (b % ByteBase), a * (b \div ByteBase))

\* x * y from the partial products ll = x.lo * y.lo, lh = x.lo * y.hi and
\* hl = x.hi * y.lo; hh says whether x.hi * y.hi is not 0.  val is the low
\* 32 bits of the product and overflow says whether the product has more.
U32MulFrom(ll, lh, hl, hh) ==
    [val |-> [lo |-> ll.lo, hi |-> (ll.hi + lh.lo + hl.lo) % HalfBase],
     overflow |-> \/ hh
                  \/ ((ll.hi + lh.lo + hl.lo) \div HalfBase) + lh.hi + hl.hi # 0]

\* x * y on u32.
U32Mul(x, y) ==
    U32MulFrom(HalfMul(x.lo, y.lo), HalfMul(x.lo, y.hi), HalfMul(x.hi, y.lo),
               x.hi # 0 /\ y.hi # 0)

\* x % m for a u32 x and 0 < m < 2^23, byte by byte from the high half.
U32Rem(x, m) ==
    ((((x.hi % m) * ByteBase + (x.lo \div ByteBase)) % m) * ByteBase
        + (x.lo % ByteBase)) % m

\* p % m for the u32 product or power p: the overflow of p panics when the
\* build checks overflow, and p is the wrapped value otherwise.
CheckedRem(p, m) ==
    IF overflow_checks /\ p.overflow
    THEN Panic("attempt to multiply with overflow")
    ELSE Ok(U32Rem(p.val, m))

\* The expression (a * b) % m on u32.
MulRem(a, b, m) == CheckedRem(U32Mul(ToHalves(a), ToHalves(b)), m)

\* u32::pow(base, exp), by squaring as the standard library computes it:
\*   while exp > 1 { if exp & 1 == 1 { acc = acc * base }
\*                   exp /= 2; base = base * base }
\*   acc * base
\* Every factor divides base^exp, so a product overflows exactly when
\* base^exp does not fit 32 bits.
RECURSIVE U32PowLoop(_, _, _, _)
U32PowLoop(base, exp, acc, overflowed) ==
    IF exp > 1
    THEN CHOOSE r \in
             {U32PowLoop(square.val, exp \div 2, next.val,
                         overflowed \/ next.overflow \/ square.overflow) :
              next \in {IF exp % 2 = 1 THEN U32Mul(acc, base)
                        ELSE [val |-> acc, overflow |-> FALSE]},
              square \in {U32Mul(base, base)}} : TRUE
    ELSE CHOOSE r \in
             {[val |-> last.val, overflow |-> overflowed \/ last.overflow] :
              last \in {U32Mul(acc, base)}} : TRUE

U32Pow(base, exp) ==
    IF exp = 0 THEN [val |-> ToHalves(1), overflow |-> FALSE]
    ELSE U32PowLoop(ToHalves(base), exp, ToHalves(1), FALSE)

(***************************************************************************)
(* FieldElement (ch1.rs)                                                   *)
(***************************************************************************)
FieldElement(n, p) == [num |-> n, prime |-> p]

\* Self { num: n, prime } once the expression n has evaluated.
WithPrime(n, p) ==
    CHOOSE r \in {IF v.tag # "Ok" THEN v ELSE Ok(FieldElement(v.val, p)) :
                  v \in {n}} : TRUE

\* FieldElement::new with the range test off by one (> for >=).
FieldElement_new_off_by_one(_num, _prime) ==
    IF _num > _prime
    THEN Err("Num not in field range")
    ELSE Ok(FieldElement(_num, _prime))

FieldElement_new(_num, _prime) ==
    IF _num >= _prime
    THEN Err("Num not in field range")
    ELSE Ok(FieldElement(_num, _prime))

\* The loop of pow, for _ in 0..(exponent - 1) { num = (num * self.num) %
\* self.prime }, run for n >= 1 iterations from num: its outcome is the
\* final num, or the panic of the first overflowing product.
RECURSIVE PowLoop(_, _, _)
PowLoop(self, num, n) ==
    CHOOSE r \in {IF next.tag # "Ok" \/ n = 1 THEN next
                  ELSE PowLoop(self, next.val, n - 1) :
                  next \in {MulRem(num, self.num, self.prime)}} : TRUE

\* Lines 25-29 of pow.  exponent - 1 on u32: 0 - 1 panics when the build
\* checks overflow and wraps to 2^32 - 1 otherwise.  The num of the loop is
\* never read afterwards and, without overflow checks, no iteration panics:
\* the loop then leaves no trace, however long it runs.
PowPrelude(self, exponent) ==
    IF ~overflow_checks THEN Ok(0)
    ELSE IF exponent = 0 THEN Panic("attempt to subtract with overflow")
    ELSE IF exponent = 1 THEN Ok(self.num)
    ELSE PowLoop(self, self.num, exponent - 1)

FieldElement_pow(self, exponent) ==
    AndThen(PowPrelude(self, exponent),
            WithPrime(CheckedRem(U32Pow(self.num, exponent), self.prime),
                      self.prime))

FieldElement_add(self, other) ==
    IF self.prime # other.prime
    THEN Err("Cannot add two numbers in different Fields")
    ELSE Ok(FieldElement((self.num + other.num) % self.prime, self.prime))

\* Sub with the wrap-around of the self.num < rhs.num branch left out: the
\* plain difference rhs.num - self.num for prime - (rhs.num - self.num).
FieldElement_sub_no_wrap(self, rhs) ==
    IF self.prime # rhs.prime
    THEN Err("Cannot subtract two numbers in different Fields")
    ELSE LET result == IF self.num > rhs.num
                       THEN (self.num - rhs.num) % self.prime
                       ELSE IF self.num < rhs.num
                       THEN rhs.num - self.num
                       ELSE 0
         IN  Ok(FieldElement(result, self.prime))

FieldElement_sub(self, rhs) ==
    IF self.prime # rhs.prime
    THEN Err("Cannot subtract two numbers in different Fields")
    ELSE LET result == IF self.num > rhs.num
                       THEN (self.num - rhs.num) % self.prime
                       ELSE IF self.num < rhs.num
                       THEN self.prime - (rhs.num - self.num)
                       ELSE 0
         IN  Ok(FieldElement(result, self.prime))

FieldElement_mul(self, rhs) ==
    IF self.prime # rhs.prime
    THEN Err("Cannot multiply two numbers in different Fields")
    ELSE WithPrime(MulRem(self.num, rhs.num, self.prime), self.prime)

FieldElement_div(self, rhs) ==
    IF self.prime # rhs.prime
    THEN Err("Cannot divide two numbers in different Fields")
    ELSE IF rhs.num = 0
    THEN Err("Cannot divide a Field element by zero")
    ELSE Apply1(LAMBDA rhs_inverse : FieldElement_mul(self, rhs_inverse),
                FieldElement_pow(rhs, self.prime - 2))

\* FieldElement::scalar_mul is called by Point::add (ch2.rs:174) and defined
\* in no source file: by the doubling slope (3x^2 + a) / (2y) it multiplies
\* the element by a small integer in the field.
FieldElement_scalar_mul(self, by) ==
    WithPrime(MulRem(self.num, by, self.prime), self.prime)

(***************************************************************************)
(* Point (ch2.rs)                                                          *)
(***************************************************************************)
Point(_a, _b, _x, _y) == [a |-> _a, b |-> _b, x |-> _x, y |-> _y]

\* Lines 45-63 of Point::new: the curve equation on coordinates of one field.
CurveCheck(_a, _b, x_value, y_value) ==
    Apply2(LAMBDA lhs, rhs :
               IF lhs # rhs
               THEN Err("coordinates is not on the curve")
               ELSE Ok(Point(_a, _b, Some(x_value), Some(y_value))),
           FieldElement_pow(y_value, 2),
           Unwrap(Apply2(FieldElement_add,
               Unwrap(Apply2(FieldElement_add,
                   FieldElement_pow(x_value, 3),
                   Unwrap(FieldElement_mul(_a, x_value)))),
               Ok(_b))))

Point_new(_a, _b, _x, _y) ==
    IF _x # None
    THEN IF _y # None
         THEN IF \/ _a.prime # _b.prime
                 \/ _b.prime # _x[1].prime
                 \/ _x[1].prime # _y[1].prime
              THEN Err("Cannot operate on different Fields")
              ELSE CurveCheck(_a, _b, _x[1], _y[1])
         ELSE Err("Invalid infinity point")
    ELSE IF _y # None
         THEN Err("Invalid infinity point")
         ELSE Ok(Point(_a, _b, None, None))

\* Case 1 of add: one operand is at infinity and other is not.  The result
\* is built from the coordinates of other, y replaced by prime - y.
AddToInfinity(self, other) ==
    Apply1(LAMBDA flipped :
               Unwrap(Point_new(self.a, self.b, other.x, Some(flipped))),
           Unwrap(FieldElement_new(self.a.prime - other.y[1].num,
                                   self.a.prime)))

\* Case 2: s = (3x^2 + a) / 2y.
TangentSlope(self) ==
    Unwrap(Apply2(FieldElement_div,
        Unwrap(Apply2(FieldElement_add,
            Apply2(FieldElement_scalar_mul,
                   FieldElement_pow(self.x[1], 2), Ok(3)),
            Ok(self.a))),
        FieldElement_scalar_mul(self.y[1], 2)))

\* Case 3: s = (y2 - y1) / (x2 - x1).
ChordSlope(self, point_2) ==
    Unwrap(Apply2(FieldElement_div,
        Unwrap(FieldElement_sub(point_2.y[1], self.y[1])),
        Unwrap(FieldElement_sub(point_2.x[1], self.x[1]))))

point_3_x(self, point_2, slope) ==
    Unwrap(Apply2(FieldElement_sub,
        Unwrap(Apply2(FieldElement_sub,
            Apply2(FieldElement_pow, slope, Ok(2)), Ok(self.x[1]))),
        Ok(point_2.x[1])))

point_3_y(self, slope, x3) ==
    Unwrap(Apply2(FieldElement_sub,
        Unwrap(Apply2(FieldElement_mul, slope,
            Unwrap(Apply2(FieldElement_sub, Ok(self.x[1]), x3)))),
        Ok(self.y[1])))

\* Lines 198-201 of add, from the slope on.
ThirdPoint(self, point_2, slope) ==
    Apply1(LAMBDA x3 :
               Apply1(LAMBDA y3 :
                          Unwrap(Point_new(self.a, self.b, Some(x3), Some(y3))),
                      point_3_y(self, slope, Ok(x3))),
           point_3_x(self, point_2, slope))

Point_add(self, point_2) ==
    IF self.a # point_2.a \/ self.b # point_2.b
    THEN Err("Point addition invalid on different curves")
    ELSE IF self.x = None /\ self.y = None
    THEN IF point_2.x = None /\ point_2.y = None
         THEN Unwrap(Point_new(self.a, self.b, None, None))
         ELSE AddToInfinity(self, point_2)
    ELSE IF point_2.x = None /\ point_2.y = None
    THEN AddToInfinity(point_2, self)
    ELSE IF self.x = point_2.x /\ self.y = point_2.y
    THEN IF self.y[1].num = 0
         THEN Unwrap(Point_new(self.a, self.b, None, None))
         ELSE Apply1(LAMBDA slope : ThirdPoint(self, point_2, Ok(slope)),
                     TangentSlope(self))
    ELSE IF /\ self.x = point_2.x
            /\ self.y[1].num + point_2.y[1].num = self.a.prime
         THEN Unwrap(Point_new(self.a, self.b, None, None))
         ELSE Apply1(LAMBDA slope : ThirdPoint(self, point_2, Ok(slope)),
                     ChordSlope(self, point_2))

\* The loop of scalar_mul, product = (product + self).unwrap(), n times.
RECURSIVE ScalarLoop(_, _, _)
ScalarLoop(self, product, n) ==
    IF n = 0 THEN Ok(product)
    ELSE CHOOSE r \in {IF sum.tag # "Ok" THEN sum
                       ELSE ScalarLoop(self, sum.val, n - 1) :
                       sum \in {Unwrap(Point_add(product, self))}} : TRUE

Point_scalar_mul(self, by) ==
    IF by = 0 THEN Unwrap(Point_new(self.a, self.b, None, None))
    ELSE IF by > 1 THEN ScalarLoop(self, self, by - 1)
    ELSE Ok(self)

(***************************************************************************)
(* Inputs                                                                  *)
(***************************************************************************)
MaxPrime == 13

MaxNum == 14

MaxExponent == 12

IsPrime(n) == n >= 2 /\ \A d \in 2..(n - 1) : n % d # 0

Primes == {p \in 2..MaxPrime : IsPrime(p)}

\* Moduli at which x^3 (1627) and x * y (65537) leave 32 bits.
WidePrimes == {1627, 65537}

WideNums == {0, 1, 2, 1626, 65536}

Elements(p) == {FieldElement(n, p) : n \in 0..(p - 1)}

SmallElements == UNION {Elements(p) : p \in Primes}

WideElements ==
    UNION {{FieldElement(n, p) : n \in {m \in WideNums : m < p}} : p \in WidePrimes}

AllElements == SmallElements \cup WideElements

MaxCurvePrime == 5

MaxMismatchPrime == 3

MaxScalar == 6

MaxScalarPrime == 7

\* A curve is the pair <<a, b>>.  Every curve over the primes up to
\* MaxCurvePrime, and over every prime the curve of the tests, a = 0 and
\* b = 7 % prime (ch2.rs:229-236).
TestCurve(p) == <<FieldElement(0, p), FieldElement(7 % p, p)>>

Curves ==
    UNION {{<<a, b>> : a \in Elements(p), b \in Elements(p)} :
           p \in {q \in Primes : q <= MaxCurvePrime}}
    \cup {TestCurve(p) : p \in Primes}

WideCurves == {<<FieldElement(0, p), FieldElement(2, p)>> : p \in WidePrimes}

MismatchElements == UNION {Elements(p) : p \in {q \in Primes : q <= MaxMismatchPrime}}

CurveElements(c) ==
    IF c[1].prime \in WidePrimes
    THEN {e \in WideElements : e.prime = c[1].prime}
    ELSE Elements(c[1].prime)

Coordinates(S) == {None} \cup {Some(e) : e \in S}

\* The points a caller can hold: the fields of Point are private, so each
\* is a successful Point::new.
PointsOn(c) ==
    {Point(c[1], c[2], xy[1], xy[2]) :
       xy \in {uv \in Coordinates(Elements(c[1].prime))
                        \X Coordinates(Elements(c[1].prime)) :
                 Point_new(c[1], c[2], uv[1], uv[2]).tag = "Ok"}}

Infinity(c) == Point(c[1], c[2], None, None)


(***************************************************************************)
(* The caller                                                              *)
(***************************************************************************)
Init ==
    /\ overflow_checks \in BOOLEAN
    /\ op = "start"
    /\ args = <<>>
    /\ ret = Ok(0)

Call_FieldElement_new ==
    /\ op = "start"
    /\ \E n \in 0..MaxNum \cup WideNums, p \in 0..MaxNum \cup WidePrimes :
        /\ op' = "FieldElement::new"
        /\ args' = <<n, p>>
        /\ ret' = FieldElement_new(n, p)
        /\ UNCHANGED overflow_checks

Call_pow ==
    /\ op = "start"
    /\ \E a \in AllElements, e \in 0..MaxExponent :
        /\ op' = "FieldElement::pow"
        /\ args' = <<a, e>>
        /\ ret' = FieldElement_pow(a, e)
        /\ UNCHANGED overflow_checks

Call_field_op ==
    /\ op = "start"
    /\ \E a \in AllElements, b \in AllElements, o \in {"add", "sub", "mul", "div"} :
        \* a division that reaches pow raises to prime - 2
        /\ (o = "div" /\ a.prime = b.prime /\ b.num # 0) => a.prime - 2 <= MaxExponent
        /\ op' = o
        /\ args' = <<a, b>>
        /\ ret' = CASE o = "add" -> FieldElement_add(a, b)
                    [] o = "sub" -> FieldElement_sub(a, b)
                    [] o = "mul" -> FieldElement_mul(a, b)
                    [] o = "div" -> FieldElement_div(a, b)
        /\ UNCHANGED overflow_checks

Call_Point_new ==
    /\ op = "start"
    /\ \E c \in Curves \cup WideCurves
                \cup {<<a, b>> : a \in MismatchElements, b \in MismatchElements} :
       \E x \in Coordinates(CurveElements(c) \cup MismatchElements),
          y \in Coordinates(CurveElements(c) \cup MismatchElements) :
        /\ op' = "Point::new"
        /\ args' = <<c[1], c[2], x, y>>
        /\ ret' = Point_new(c[1], c[2], x, y)
        /\ UNCHANGED overflow_checks

Call_Point_add ==
    /\ op = "start"
    /\ \E c \in Curves : \E d \in {c, TestCurve(7)} :
       \E p1 \in PointsOn(c), p2 \in PointsOn(d) :
        /\ op' = "Point::add"
        /\ args' = <<p1, p2>>
        /\ ret' = Point_add(p1, p2)
        /\ UNCHANGED overflow_checks

Call_scalar_mul ==
    /\ op = "start"
    /\ \E c \in {d \in Curves : d[1].prime <= MaxScalarPrime} :
       \E p \in PointsOn(c), k \in 0..MaxScalar :
        /\ op' = "Point::scalar_mul"
        /\ args' = <<p, k>>
        /\ ret' = Point_scalar_mul(p, k)
        /\ UNCHANGED overflow_checks

Next ==
    \/ Call_FieldElement_new
    \/ Call_pow
    \/ Call_field_op
    \/ Call_Point_new
    \/ Call_Point_add
    \/ Call_scalar_mul

Spec == Init /\ [][Next]_vars

(***************************************************************************)
(* Reference arithmetic: the field the documentation describes, computed   *)
(* over the integers (operands at most 2^16, modulus below 2^22).          *)
(***************************************************************************)
ExactMulMod(a, b, m) ==
    (((a * (b \div ByteBase)) % m) * ByteBase + (a * (b % ByteBase))) % m

RECURSIVE ExactPowMod(_, _, _)
ExactPowMod(a, e, m) ==
    IF e = 0 THEN 1 % m
    ELSE CHOOSE r \in {ExactMulMod(a, v, m) : v \in {ExactPowMod(a, e - 1, m)}} : TRUE

\* y^2 = x^3 + a x + b in the field of prime p.
SatisfiesCurve(a, b, x, y, p) ==
    ExactMulMod(y, y, p) = (ExactPowMod(x, 3, p) + ExactMulMod(a, x, p) + b) % p

IsInfinity(pt) == pt.x = None /\ pt.y = None

OnCurve(pt) ==
    /\ pt.x # None /\ pt.y # None
    /\ SatisfiesCurve(pt.a.num, pt.b.num, pt.x[1].num, pt.y[1].num, pt.a.prime)

SameCurve(p1, p2) == p1.a = p2.a /\ p1.b = p2.b

\* The outcome o is the value v.
Is(o, v) == o.tag = "Ok" /\ o.val = v

Returned(v) == Is(ret, v)

Failed(msg) == ret.tag = "Err" /\ ret.val = msg

\* Two expressions both evaluate, to equal values.
BothEqual(x, y) == x.tag = "Ok" /\ y.tag = "Ok" /\ x.val = y.val

(***************************************************************************)
(* Claims                                                                  *)
(***************************************************************************)

\* C1: curve identity law.  Adding the point at infinity to a point p of the
\* same curve, on either side, returns p itself (same x, same y), and
\* infinity + infinity is infinity.
C1_IdentityLaw ==
    (op = "Point::add" /\ SameCurve(args[1], args[2])) =>
        /\ IsInfinity(args[1]) => Returned(args[2])
        /\ IsInfinity(args[2]) => Returned(args[1])

\* C2: add is total and closed.  For two valid points of one curve, add
\* returns a success value, never panics, and the value is infinity or a
\* point that satisfies the curve equation.
C2_AddTotalAndClosed ==
    (op = "Point::add" /\ SameCurve(args[1], args[2])) =>
        /\ ret.tag = "Ok"
        /\ IsInfinity(ret.val) \/ OnCurve(ret.val)

\* C3: scalar multiplication is k-fold addition from the identity:
\* scalar_mul(p, 0) is infinity, scalar_mul(p, 1) is p, and scalar_mul(p, k)
\* equals add(scalar_mul(p, k - 1), p) for every k >= 1, k - 1 = 0 included.
C3_ScalarMulIsRepeatedAdd ==
    op = "Point::scalar_mul" =>
        /\ args[2] = 0 => Returned(Point(args[1].a, args[1].b, None, None))
        /\ args[2] = 1 => Returned(args[1])
        /\ args[2] >= 1 =>
              BothEqual(ret,
                        Apply2(Point_add,
                               Point_scalar_mul(args[1], args[2] - 1),
                               Ok(args[1])))

\* C4: pow is modular exponentiation for every exponent >= 0; pow(a, 0) is
\* the element of value 1, with no underflow and no panic.  (Stated for the
\* powers a.num^exponent that fit 32 bits; the others are the subject of C6.)
C4_PowIsModularExponentiation ==
    (op = "FieldElement::pow" /\ ~U32Pow(args[1].num, args[2]).overflow) =>
        Returned(FieldElement(ExactPowMod(args[1].num, args[2], args[1].prime),
                              args[1].prime))

\* C5: multiplicative inverse.  For a nonzero divisor b of the field of a,
\* div(a, b) succeeds, equals mul(a, pow(b, prime - 2)), gives back a when
\* multiplied by b, and div(a, a) has value 1; prime 2 included.
C5_DivisionInverts ==
    (op = "div" /\ args[1].prime = args[2].prime /\ args[2].num # 0) =>
        /\ ret.tag = "Ok"
        /\ BothEqual(ret, Apply2(FieldElement_mul, Ok(args[1]),
                                  FieldElement_pow(args[2], args[1].prime - 2)))
        /\ Is(FieldElement_mul(ret.val, args[2]), args[1])
        /\ args[1] = args[2] => ret.val.num = 1

\* C6: no overflow before reduction.  mul(a, b) is exactly (a.num * b.num)
\* mod prime over the integers, and pow(a, e), e >= 1, is exactly a.num^e
\* mod prime: nothing is truncated modulo 2^32 and nothing panics.  (The
\* exponent 0 is the subject of C4.)
C6_NoOverflowBeforeReduction ==
    /\ (op = "mul" /\ args[1].prime = args[2].prime) =>
          Returned(FieldElement(
              ExactMulMod(args[1].num, args[2].num, args[1].prime),
              args[1].prime))
    /\ (op = "FieldElement::pow" /\ args[2] >= 1) =>
          Returned(FieldElement(
              ExactPowMod(args[1].num, args[2], args[1].prime),
              args[1].prime))

\* C7: inverse law.  For an on-curve p = (x, y), add(p, (x, -y mod prime))
\* is the point at infinity; p + p with y = 0 is a case of it.
C7_InverseLaw ==
    (/\ op = "Point::add" /\ SameCurve(args[1], args[2])
     /\ ~IsInfinity(args[1]) /\ ~IsInfinity(args[2])
     /\ args[1].x = args[2].x
     /\ (args[1].y[1].num + args[2].y[1].num) % args[1].a.prime = 0) =>
        Returned(Point(args[1].a, args[1].b, None, None))

\* C8: associativity.  For valid points p, q, r of one curve,
\* add(add(p, q), r) equals add(p, add(q, r)).
C8_Associativity ==
    (op = "Point::add" /\ SameCurve(args[1], args[2])) =>
        \A r \in PointsOn(<<args[1].a, args[1].b>>) :
            BothEqual(Apply2(Point_add, ret, Ok(r)),
                      Apply2(Point_add, Ok(args[1]), Point_add(args[2], r)))

\* C9: dispatch of Point::new.  Exactly one coordinate present fails with
\* "Invalid infinity point" whatever the primes; none present succeeds as
\* infinity; both present fails with "different Fields" unless a, b, x, y
\* share one prime, else fails with "not on the curve" unless
\* y^2 = x^3 + a x + b in that field, else succeeds with the supplied
\* a, b, x, y.
C9_PointNewDispatch ==
    op = "Point::new" =>
        LET a == args[1]
            b == args[2]
            x == args[3]
            y == args[4]
        IN  IF (x = None) # (y = None)
            THEN Failed("Invalid infinity point")
            ELSE IF x = None
            THEN Returned(Point(a, b, None, None))
            ELSE IF Cardinality({a.prime, b.prime, x[1].prime, y[1].prime}) # 1
            THEN Failed("Cannot operate on different Fields")
            ELSE IF ~SatisfiesCurve(a.num, b.num, x[1].num, y[1].num, a.prime)
            THEN Failed("coordinates is not on the curve")
            ELSE Returned(Point(a, b, x, y))

\* C10: FieldElement::new succeeds exactly when value < prime, the element
\* then carrying the given value and prime; when value >= prime it fails
\* with the range error and yields no element.
C10_NewIffInRange ==
    op = "FieldElement::new" =>
        IF args[1] < args[2]
        THEN Returned(FieldElement(args[1], args[2]))
        ELSE Failed("Num not in field range")

\* C10 witness: the largest value of a field, prime - 1, is accepted.
C10_Witness ==
    /\ op = "FieldElement::new"
    /\ args[1] + 1 = args[2]
    /\ Returned(FieldElement(args[1], args[2]))

\* The message of the field-mismatch error of each operator (ch1.rs:49, 64,
\* 86, 101).
MismatchMessage(o) ==
    CASE o = "add" -> "Cannot add two numbers in different Fields"
      [] o = "sub" -> "Cannot subtract two numbers in different Fields"
      [] o = "mul" -> "Cannot multiply two numbers in different Fields"
      [] o = "div" -> "Cannot divide two numbers in different Fields"

\* C11: field error outcomes.  add, sub, mul and div on elements of different
\* primes fail with the field-mismatch error (div also when the divisor is
\* 0); div on one prime with divisor 0 fails with the division-by-zero
\* error; in every other case the operation succeeds.
C11_FieldErrorOutcomes ==
    op \in {"add", "sub", "mul", "div"} =>
        IF args[1].prime # args[2].prime
        THEN Failed(MismatchMessage(op))
        ELSE IF op = "div" /\ args[2].num = 0
        THEN Failed("Cannot divide a Field element by zero")
        ELSE ret.tag = "Ok"

\* The prime a returned FieldElement has to carry: the prime given to
\* FieldElement::new, the prime of the operands everywhere else.
OperandPrime ==
    IF op = "FieldElement::new" THEN args[2] ELSE args[1].prime

\* C12: field range invariant and closure. Every FieldElement returned by
\* FieldElement::new, add, sub, mul, pow or div has 0 <= num < prime and
\* carries the prime of the operands; and sub of two elements of one field
\* returns (a.num - b.num) mod prime, which is prime - (b.num - a.num) when
\* a.num < b.num and 0 when the two are equal.
C12_RangeAndSubtract ==
    /\ (op \in {"FieldElement::new", "FieldElement::pow", "add", "sub", "mul", "div"}
            /\ ret.tag = "Ok")
        => /\ ret.val.prime = OperandPrime
           /\ ret.val.num \in 0..(ret.val.prime - 1)
    /\ (op = "sub" /\ args[1].prime = args[2].prime)
        => /\ Returned(FieldElement((args[1].num - args[2].num) % args[1].prime,
                                    args[1].prime))
           /\ args[1].num < args[2].num
                => ret.val.num = args[1].prime - (args[2].num - args[1].num)
           /\ args[1].num = args[2].num => ret.val.num = 0

\* C12 witness: a subtraction that wraps around, the minuend being the
\* smaller value, over a field wide enough for the widest difference.
C12_Witness ==
    /\ op = "sub"
    /\ args[1].prime = args[2].prime
    /\ args[1].num = 0
    /\ args[2].num = args[2].prime - 1
    /\ args[1].prime > 2
    /\ Returned(FieldElement(1, args[1].prime))

\* Reference division in the field of prime p: n times the inverse of d,
\* the inverse by Fermat's little theorem, d^(p-2).
ExactDivMod(n, d, p) == ExactMulMod(n % p, ExactPowMod(d % p, p - 2, p), p)

\* The third point of the line of slope s through (x1, y1) and (x2, _):
\* x3 = s^2 - x1 - x2 and y3 = s (x1 - x3) - y1 in the field of prime p.
ExactThirdPoint(a, b, s, x1, y1, x2) ==
    LET p  == a.prime
        x3 == (s * s - x1 - x2) % p
        y3 == (s * (x1 - x3) - y1) % p
    IN  Point(a, b, Some(FieldElement(x3, p)), Some(FieldElement(y3, p)))

\* C13: chord-and-tangent formulas. For on-curve points p1 = (x1, y1) and
\* p2 = (x2, y2) of one curve, add(p1, p2) returns the third point of the
\* line of slope s = (y2 - y1) / (x2 - x1) when x1 # x2, and of slope
\* s = (3 x1^2 + a) / (2 y1) when p1 = p2 and y1 # 0 (the divisor 2 y1 being
\* nonzero in the field).
C13_ChordAndTangent ==
    (/\ op = "Point::add" /\ SameCurve(args[1], args[2])
     /\ ~IsInfinity(args[1]) /\ ~IsInfinity(args[2])) =>
        LET a  == args[1].a
            p  == a.prime
            x1 == args[1].x[1].num
            y1 == args[1].y[1].num
            x2 == args[2].x[1].num
            y2 == args[2].y[1].num
        IN  /\ x1 # x2 =>
                  Returned(ExactThirdPoint(a, args[1].b,
                      ExactDivMod(y2 - y1, x2 - x1, p), x1, y1, x2))
            /\ (x1 = x2 /\ y1 = y2 /\ (2 * y1) % p # 0) =>
                  Returned(ExactThirdPoint(a, args[1].b,
                      ExactDivMod(3 * x1 * x1 + a.num, 2 * y1, p), x1, y1, x2))

====
